---- MODULE Spec2Model ----
(***************************************************************************)
(* Grace-period expiration engine of the tapparkuser backend               *)
(* (server-fast.js, runGracePeriodCheck) together with the writers it      *)
(* shares the store with.  The store is MySQL/InnoDB: the writes of an     *)
(* open transaction are private to it and lock the rows they touch until   *)
(* commit or rollback.  JavaScript runs one callback at a time, so an      *)
(* invocation of runGracePeriodCheck yields only at an await; each action  *)
(* of the sweep below is the code between two awaits.  The client's        *)
(* ExpirationModalProvider (src/unnamed/part_001) is a process of its own   *)
(* with its own state; it is specified by ModalSpec.                       *)
(***************************************************************************)
EXTENDS Integers, Sequences, FiniteSets, TLC

\* ---------------------------------------------------------------- bounds
MaxRes == 2              \* reservation rows ever inserted
MaxTime == 1             \* clock ticks the model runs for
TicksPerMinute == 1      \* clock resolution: ticks in one minute
MaxInFlight == 2         \* invocations of runGracePeriodCheck the model can hold at once
MaxClientTicks == 3      \* steps of the client's clock the model runs for
MaxRecords == 2          \* pending-expiration records ever stored
MaxCalls == 2            \* calls of checkPendingReservationExpiration held at once

\* ------------------------------------------------------ program constants
DefaultGracePeriodMinutes == 15
ExpiredTestAgeMinutes == 16
NULL == -1
EXPIRATION_MODAL_MAX_AGE_MS == 5 * 60 * 1000

\* the parking lot the engine runs against: one numbered spot, which belongs
\* to the section or to none, and one section with a counter
SpotIds == {1}
SectionIds == {1}
Slots == 1..MaxInFlight
EnvValues == {"unset", "1"}
CallSlots == 1..MaxCalls

\* the client's clock moves in steps of half the modal's maximum age, so that
\* a record is seen at the ages 0, 2.5, 5 (the boundary) and 7.5 minutes
ClockStepMs == EXPIRATION_MODAL_MAX_AGE_MS \div 2

VARIABLES
  now,                        \* NOW() of the store, in ticks
  env_GRACE_PERIOD_MINUTES,   \* process.env.GRACE_PERIOD_MINUTES
  reservations,               \* table reservations, indexed by reservation_id
  parking_spot,               \* table parking_spot
  parking_section,            \* table parking_section
  user_logs,                  \* table user_logs (audit events)
  db_connection,              \* db.connection: the pool exists
  isGracePeriodCheckRunning,  \* the guard flag
  startupFired,               \* the setTimeout(…, 2000) callback has run
  lastInvocation,             \* what the latest call of runGracePeriodCheck did
  shutdown,                   \* "running", "draining" (a signal handler awaits
                              \*   db.disconnect()) or "exited" (process.exit)
  sweep,                      \* per invocation of runGracePeriodCheck, its frame:
                              \*   pc                    the await it is suspended at
                              \*   GRACE_PERIOD_MINUTES  the threshold it read
                              \*   expiredReservations   the rows its scan returned
                              \*   idx                   the position of its for..of loop
                              \*   connection            it holds a pooled connection
                              \*   summary               what it returns to its caller
  tx,                         \* per invocation: the open transaction of its connection
  clientNow,                  \* Date.now() of the client, in milliseconds
  storage,                    \* AsyncStorage item PENDING_EXPIRATION_STORAGE_KEY
  recordsWritten,             \* pending records stored so far
  showExpirationModal,        \* useState(false)
  expirationDetails,          \* useState(null)
  calls,                      \* per call of checkPendingReservationExpiration:
                              \*   pc      the await it is suspended at
                              \*   stored  what its getItem returned
  timesShown                  \* history: per stored record, how often a call of
                              \*   checkPendingReservationExpiration has shown it

storeVars == <<reservations, parking_spot, parking_section, user_logs>>
sweepVars == <<sweep, tx>>
clientVars == <<clientNow, storage, recordsWritten, showExpirationModal,
                expirationDetails, calls, timesShown>>
serverVars == <<now, env_GRACE_PERIOD_MINUTES, reservations, parking_spot, parking_section,
                user_logs, db_connection, isGracePeriodCheckRunning, startupFired,
                lastInvocation, shutdown, sweep, tx>>
vars == <<serverVars, clientVars>>

\* ------------------------------------------------------------ pure helpers
Max(a, b) == IF a >= b THEN a ELSE b

\* GREATEST(reserved_count - 1, 0)
GreatestDecrement(n) == Max(n - 1, 0)

\* TIMESTAMPDIFF(MINUTE, from, to): whole minutes, truncated
TimestampDiffMinute(from, to) == (to - from) \div TicksPerMinute

\* parseInt(process.env.GRACE_PERIOD_MINUTES) || 15
ToNumber(v) == IF v = "1" THEN 1 ELSE 0
ParseGracePeriod(v) ==
  IF v = "unset" THEN DefaultGracePeriodMinutes
  ELSE IF ToNumber(v) = 0 THEN DefaultGracePeriodMinutes
  ELSE ToNumber(v)

\* JavaScript truthiness of a parking_section_id (null and 0 are falsy)
Truthy(x) == x # NULL /\ x # 0

NoTx == [open |-> FALSE, writes |-> <<>>]

\* the frame of an invocation that is not running: none yet ("idle"), returned
\* from the end of its try block ("done") or through its outer catch ("failed")
NoFrame(how) ==
  [pc |-> how, GRACE_PERIOD_MINUTES |-> 0, expiredReservations |-> <<>>,
   idx |-> 0, connection |-> FALSE, summary |-> "undefined"]

\* a row is locked while an open transaction has written it
RowLocked(table, id) ==
  \E s \in Slots : tx[s].open /\
     \E k \in 1..Len(tx[s].writes) : tx[s].writes[k].table = table /\ tx[s].writes[k].id = id

\* AsyncStorage.getItem of a key that holds nothing: null
NoItem == [text |-> "null"]

\* useState<ExpirationDetails | null>(null)
NullDetails == [null |-> TRUE]

\* a call of checkPendingReservationExpiration that is not running
NoCall == [pc |-> "idle", stored |-> NoItem]

\* ------------------------------------------------------------------- Init
Init ==
  /\ now = 0
  /\ env_GRACE_PERIOD_MINUTES \in EnvValues
  /\ reservations = <<>>
  /\ parking_spot \in [SpotIds -> [status : {"available"}, is_occupied : {0},
                                   parking_section_id : SectionIds \cup {NULL}]]
  /\ parking_section = [c \in SectionIds |-> [reserved_count |-> 0, parked_count |-> 0]]
  /\ user_logs = <<>>
  /\ db_connection = FALSE
  /\ isGracePeriodCheckRunning = FALSE
  /\ startupFired = FALSE
  /\ lastInvocation = "none"
  /\ shutdown = "running"
  /\ sweep = [s \in Slots |-> NoFrame("idle")]
  /\ tx = [s \in Slots |-> NoTx]
  /\ clientNow = ClockStepMs
  /\ storage = NoItem
  /\ recordsWritten = 0
  /\ showExpirationModal = FALSE
  /\ expirationDetails = NullDetails
  /\ calls = [c \in CallSlots |-> NoCall]
  /\ timesShown = [k \in 1..MaxRecords |-> 0]

\* ------------------------------------------------------------------ clock
Tick ==
  /\ now < MaxTime
  /\ now' = now + 1
  /\ UNCHANGED <<clientVars, env_GRACE_PERIOD_MINUTES, shutdown, storeVars, db_connection,
                 isGracePeriodCheckRunning, startupFired, lastInvocation, sweepVars>>

\* ---------------------------------------------------- the other writers
\* Reservation of a numbered spot, as the test's createExpiredTestReservation
\* (minutesAgo = 16) and createFreshTestReservation (minutesAgo = 0) insert it,
\* in one transaction as the creation contract requires.
CreateSpotReservation(p, minutesAgo) ==
  /\ Len(reservations) < MaxRes
  /\ parking_spot[p].status = "available"
  /\ ~RowLocked("parking_spot", p)
  /\ LET sec == parking_spot[p].parking_section_id IN
     /\ Truthy(sec) => ~RowLocked("parking_section", sec)
     /\ reservations' = Append(reservations,
            [booking_status |-> "reserved", start_time |-> NULL,
             time_stamp |-> now - minutesAgo * TicksPerMinute,
             parking_spots_id |-> p, parking_section_id |-> sec])
     /\ parking_spot' = [parking_spot EXCEPT ![p].status = "reserved", ![p].is_occupied = 0]
     /\ parking_section' =
           IF Truthy(sec)
           THEN [parking_section EXCEPT ![sec].reserved_count = @ + 1]
           ELSE parking_section
  /\ UNCHANGED <<clientVars, now, env_GRACE_PERIOD_MINUTES, shutdown, user_logs, db_connection,
                 isGracePeriodCheckRunning, startupFired, lastInvocation, sweepVars>>

\* Capacity-only reservation (parking_spots_id = 0) against a section counter.
CreateCapacityReservation(c) ==
  /\ Len(reservations) < MaxRes
  /\ ~RowLocked("parking_section", c)
  /\ reservations' = Append(reservations,
         [booking_status |-> "reserved", start_time |-> NULL, time_stamp |-> now,
          parking_spots_id |-> 0, parking_section_id |-> c])
  /\ parking_section' = [parking_section EXCEPT ![c].reserved_count = @ + 1]
  /\ UNCHANGED <<clientVars, now, env_GRACE_PERIOD_MINUTES, shutdown, parking_spot, user_logs, db_connection,
                 isGracePeriodCheckRunning, startupFired, lastInvocation, sweepVars>>

\* Session start: reserved -> active with start_time set, the hold becomes a
\* parked vehicle.
StartSession(r) ==
  /\ r \in DOMAIN reservations
  /\ reservations[r].booking_status = "reserved"
  /\ ~RowLocked("reservations", r)
  /\ LET p == reservations[r].parking_spots_id
         sec == reservations[r].parking_section_id IN
     /\ p # 0 => ~RowLocked("parking_spot", p)
     /\ Truthy(sec) => ~RowLocked("parking_section", sec)
     /\ reservations' = [reservations EXCEPT ![r].booking_status = "active",
                                             ![r].start_time = now]
     /\ parking_spot' =
           IF p # 0
           THEN [parking_spot EXCEPT ![p].status = "occupied", ![p].is_occupied = 1]
           ELSE parking_spot
     /\ parking_section' =
           IF Truthy(sec)
           THEN [parking_section EXCEPT
                   ![sec].reserved_count = GreatestDecrement(@),
                   ![sec].parked_count = @ + 1]
           ELSE parking_section
  /\ UNCHANGED <<clientVars, now, env_GRACE_PERIOD_MINUTES, shutdown, user_logs, db_connection,
                 isGracePeriodCheckRunning, startupFired, lastInvocation, sweepVars>>

\* ------------------------------------------------- the store, per connection
RECURSIVE ApplyWrites(_, _, _)
\* the table `name` after the writes `ws` of a transaction have been applied
ApplyWrites(tbl, name, ws) ==
  IF ws = <<>> THEN tbl
  ELSE LET w == Head(ws) IN
       ApplyWrites(IF w.table = name THEN [tbl EXCEPT ![w.id] = w.row] ELSE tbl,
                   name, Tail(ws))

\* what the connection of invocation s reads: its own writes over the committed rows
View(s, name, tbl) == ApplyWrites(tbl, name, tx[s].writes)

\* a row another connection has locked: an UPDATE of it waits
LockedByOther(s, table, id) ==
  \E t \in Slots \ {s} : tx[t].open /\
     \E k \in 1..Len(tx[t].writes) : tx[t].writes[k].table = table /\ tx[t].writes[k].id = id

\* connection.execute(UPDATE …) inside the transaction of invocation s
TxWrite(s, table, id, row) ==
  [tx EXCEPT ![s].writes = Append(@, [table |-> table, id |-> id, row |-> row])]

\* ------------------------------------------------------------ eligibility
\* the scan without its booking_status condition
Eligible_AnyStatus(row, gracePeriodMinutes) ==
  /\ row.start_time = NULL
  /\ TimestampDiffMinute(row.time_stamp, now) >= gracePeriodMinutes

\* the scan with an exclusive boundary
Eligible_StrictlyOlder(row, gracePeriodMinutes) ==
  /\ row.booking_status = "reserved"
  /\ row.start_time = NULL
  /\ TimestampDiffMinute(row.time_stamp, now) > gracePeriodMinutes

\* WHERE booking_status = 'reserved' AND start_time IS NULL
\*   AND TIMESTAMPDIFF(MINUTE, time_stamp, NOW()) >= ?
Eligible(row, gracePeriodMinutes) ==
  /\ row.booking_status = "reserved"
  /\ row.start_time = NULL
  /\ TimestampDiffMinute(row.time_stamp, now) >= gracePeriodMinutes

\* SELECT reservation_id, parking_spots_id, parking_section_id FROM reservations WHERE …
FindExpiredReservations(gracePeriodMinutes) ==
  LET ids == [k \in 1..Len(reservations) |-> k]
      hit == SelectSeq(ids, LAMBDA r : Eligible(reservations[r], gracePeriodMinutes))
  IN [k \in 1..Len(hit) |->
        [reservation_id |-> hit[k],
         parking_spots_id |-> reservations[hit[k]].parking_spots_id,
         parking_section_id |-> reservations[hit[k]].parking_section_id]]

\* ------------------------------------------------------- runGracePeriodCheck
\* the candidate the for..of loop of invocation s is at
reservation(s) == sweep[s].expiredReservations[sweep[s].idx]

\* the guard left out: every invocation runs
AlreadyRunning_Never == FALSE

\* if (isGracePeriodCheckRunning)
AlreadyRunning == isGracePeriodCheckRunning

\* a skip that gives the guard back on its way out
SkipInvocation_ClearsGuard ==
  /\ lastInvocation' = "skipped"
  /\ isGracePeriodCheckRunning' = FALSE
  /\ UNCHANGED sweepVars

\* … { console.log('already running'); return; }
SkipInvocation ==
  /\ lastInvocation' = "skipped"
  /\ UNCHANGED <<isGracePeriodCheckRunning, sweepVars>>

\* a sweep that returns from the end of its try block without the finally
EndSweep_KeepsGuard(s) ==
  /\ UNCHANGED isGracePeriodCheckRunning
  /\ sweep' = [sweep EXCEPT ![s] = NoFrame("done")]

\* the end of the try block, then the outer finally: the guard is cleared and
\* the invocation returns
EndSweep(s) ==
  /\ isGracePeriodCheckRunning' = FALSE
  /\ sweep' = [sweep EXCEPT ![s] = NoFrame("done")]

\* an outer catch that leaves without the finally: the guard stays set
FailSweep_KeepsGuard(s) ==
  /\ UNCHANGED isGracePeriodCheckRunning
  /\ sweep' = [sweep EXCEPT ![s] = NoFrame("failed")]

\* the outer catch ('Simple grace period check failed'), then the outer finally
FailSweep(s) ==
  /\ isGracePeriodCheckRunning' = FALSE
  /\ sweep' = [sweep EXCEPT ![s] = NoFrame("failed")]

\* invocation s goes on to its next await
Goto(s, label) ==
  /\ sweep' = [sweep EXCEPT ![s].pc = label]
  /\ UNCHANGED isGracePeriodCheckRunning

\* an invocation that has returned, or none yet: the model can reuse its slot
Returned(s) == sweep[s].pc \in {"idle", "done", "failed"}

\* a loop step that goes on without connection.release()
ReleaseAndContinue_KeepsConnection(s) ==
  IF sweep[s].idx < Len(sweep[s].expiredReservations)
  THEN /\ sweep' = [sweep EXCEPT ![s].idx = @ + 1,
                                 ![s].pc = "getConnection"]
       /\ UNCHANGED isGracePeriodCheckRunning
  ELSE EndSweep(s)

\* the inner finally and the loop's step: release the connection, then the
\* next candidate's getConnection or, after the last one, the end of the sweep
ReleaseAndContinue(s) ==
  IF sweep[s].idx < Len(sweep[s].expiredReservations)
  THEN /\ sweep' = [sweep EXCEPT ![s].connection = FALSE,
                                 ![s].idx = @ + 1,
                                 ![s].pc = "getConnection"]
       /\ UNCHANGED isGracePeriodCheckRunning
  ELSE EndSweep(s)

\* the call of runGracePeriodCheck up to its first await
runGracePeriodCheck ==
  IF AlreadyRunning
  THEN SkipInvocation
  ELSE \E s \in Slots :
         /\ Returned(s)
         /\ \A t \in Slots : Returned(t) => s <= t
         /\ isGracePeriodCheckRunning' = TRUE
         /\ lastInvocation' = "executed"
         /\ sweep' = [sweep EXCEPT ![s] =
               [pc |-> "ensureDbPool",
                GRACE_PERIOD_MINUTES |-> ParseGracePeriod(env_GRACE_PERIOD_MINUTES),
                expiredReservations |-> <<>>, idx |-> 0, connection |-> FALSE,
                summary |-> "undefined"]]
         /\ UNCHANGED tx

\* setTimeout(runGracePeriodCheck, 2000)
StartupTimer ==
  /\ shutdown # "exited"
  /\ ~startupFired
  /\ startupFired' = TRUE
  /\ runGracePeriodCheck
  /\ UNCHANGED <<clientVars, now, env_GRACE_PERIOD_MINUTES, shutdown, storeVars, db_connection>>

\* setInterval(() => runGracePeriodCheck(), 30 * 1000): due after the startup
\* timer, until a signal handler clears it
IntervalTimer ==
  /\ shutdown = "running"
  /\ startupFired
  /\ runGracePeriodCheck
  /\ UNCHANGED <<clientVars, now, env_GRACE_PERIOD_MINUTES, shutdown, storeVars, db_connection, startupFired>>

\* await ensureDbPool(): db.connect() when there is no pool yet
ensureDbPool(s, ok) ==
  /\ sweep[s].pc = "ensureDbPool"
  /\ db_connection => ok
  /\ IF ok
     THEN /\ db_connection' = TRUE
          /\ Goto(s, "scan")
     ELSE /\ FailSweep(s)
          /\ UNCHANGED db_connection
  /\ UNCHANGED <<clientVars, now, env_GRACE_PERIOD_MINUTES, shutdown, storeVars, startupFired, lastInvocation, tx>>

\* a scan issued on a connection with a transaction already begun
Scan_InsideTransaction(s, ok) ==
  /\ sweep[s].pc = "scan"
  /\ tx' = [tx EXCEPT ![s] = [open |-> TRUE, writes |-> <<>>]]
  /\ IF ok
     THEN LET rows == FindExpiredReservations(sweep[s].GRACE_PERIOD_MINUTES) IN
          IF Len(rows) > 0
          THEN /\ sweep' = [sweep EXCEPT ![s].expiredReservations = rows,
                                         ![s].idx = 1,
                                         ![s].pc = "getConnection"]
               /\ UNCHANGED isGracePeriodCheckRunning
          ELSE EndSweep(s)
     ELSE FailSweep(s)
  /\ UNCHANGED <<clientVars, now, env_GRACE_PERIOD_MINUTES, shutdown, storeVars, db_connection, startupFired,
                 lastInvocation>>

\* await pool.execute(SELECT …): the scan
Scan(s, ok) ==
  /\ sweep[s].pc = "scan"
  /\ IF ok
     THEN LET rows == FindExpiredReservations(sweep[s].GRACE_PERIOD_MINUTES) IN
          IF Len(rows) > 0
          THEN /\ sweep' = [sweep EXCEPT ![s].expiredReservations = rows,
                                         ![s].idx = 1,
                                         ![s].pc = "getConnection"]
               /\ UNCHANGED isGracePeriodCheckRunning
          ELSE EndSweep(s)
     ELSE FailSweep(s)
  /\ UNCHANGED <<clientVars, now, env_GRACE_PERIOD_MINUTES, shutdown, storeVars, db_connection, startupFired,
                 lastInvocation, tx>>

\* a getConnection awaited outside every try: its rejection leaves the function
GetConnection_Uncaught(s, ok) ==
  /\ sweep[s].pc = "getConnection"
  /\ IF ok
     THEN /\ sweep' = [sweep EXCEPT ![s].connection = TRUE, ![s].pc = "beginTransaction"]
          /\ UNCHANGED isGracePeriodCheckRunning
     ELSE /\ sweep' = [sweep EXCEPT ![s] = NoFrame("rejected")]
          /\ UNCHANGED isGracePeriodCheckRunning
  /\ UNCHANGED <<clientVars, now, env_GRACE_PERIOD_MINUTES, shutdown, storeVars, db_connection, startupFired,
                 lastInvocation, tx>>

\* await pool.getConnection(): outside the inner try, a failure ends the sweep
GetConnection(s, ok) ==
  /\ sweep[s].pc = "getConnection"
  /\ IF ok
     THEN /\ sweep' = [sweep EXCEPT ![s].connection = TRUE, ![s].pc = "beginTransaction"]
          /\ UNCHANGED isGracePeriodCheckRunning
     ELSE FailSweep(s)
  /\ UNCHANGED <<clientVars, now, env_GRACE_PERIOD_MINUTES, shutdown, storeVars, db_connection, startupFired,
                 lastInvocation, tx>>

\* await connection.beginTransaction()
BeginTransaction(s, ok) ==
  /\ sweep[s].pc = "beginTransaction"
  /\ IF ok
     THEN /\ tx' = [tx EXCEPT ![s] = [open |-> TRUE, writes |-> <<>>]]
          /\ Goto(s, "updateReservation")
     ELSE /\ Goto(s, "rollback")
          /\ UNCHANGED tx
  /\ UNCHANGED <<clientVars, now, env_GRACE_PERIOD_MINUTES, shutdown, storeVars, db_connection, startupFired,
                 lastInvocation>>

\* the spot update issued whatever the spot reference is
AfterReservation_AlwaysSpot(row) == "updateSpot"

\* where the transaction goes after the reservation row: the spot, the section, the commit
AfterReservation(row) ==
  IF row.parking_spots_id # 0 THEN "updateSpot"
  ELSE IF Truthy(row.parking_section_id) THEN "updateSection"
  ELSE "commit"

\* the section update issued whatever the section reference is
AfterSpot_AlwaysSection(row) == "updateSection"

\* after the spot row: the section when the candidate has one, else the commit
AfterSpot(row) == IF Truthy(row.parking_section_id) THEN "updateSection" ELSE "commit"

\* UPDATE reservations SET booking_status = 'invalid', … WHERE reservation_id = ?
\* (the row is found by its id alone; waiting_end_time and updated_at, which no
\* operation here reads, are not kept)
ExpireReservationRow(row) == [row EXCEPT !.booking_status = "invalid"]

\* the spot update without its status column
FreeSpotRow_OccupancyOnly(row) == [row EXCEPT !.is_occupied = 0]

\* UPDATE parking_spot SET status = 'available', is_occupied = 0 WHERE parking_spot_id = ?
FreeSpotRow(row) == [row EXCEPT !.status = "available", !.is_occupied = 0]

\* the decrement without its floor
DecrementSectionRow_NoFloor(row) == [row EXCEPT !.reserved_count = @ - 1]

\* the counter written as an absolute value in place of a relative one
DecrementSectionRow_Absolute(row) == [row EXCEPT !.reserved_count = 0]

\* UPDATE parking_section SET reserved_count = GREATEST(reserved_count - 1, 0) WHERE …
DecrementSectionRow(row) == [row EXCEPT !.reserved_count = GreatestDecrement(@)]

\* the reservation UPDATE without its WHERE reservation_id = ?: every hold
\* that is still reserved is set invalid with the candidate
UpdateReservation_AllReserved(s, ok) ==
  /\ sweep[s].pc = "updateReservation"
  /\ LET r == reservation(s).reservation_id
         ids == [k \in 1..Len(reservations) |-> k]
         hit == SelectSeq(ids, LAMBDA q : q = r \/ reservations[q].booking_status = "reserved")
     IN
     IF ok
     THEN /\ ~LockedByOther(s, "reservations", r)
          /\ tx' = [tx EXCEPT ![s].writes = @ \o
                      [k \in 1..Len(hit) |->
                         [table |-> "reservations", id |-> hit[k],
                          row |-> ExpireReservationRow(reservations[hit[k]])]]]
          /\ Goto(s, AfterReservation(reservation(s)))
     ELSE /\ Goto(s, "rollback")
          /\ UNCHANGED tx
  /\ UNCHANGED <<clientVars, now, env_GRACE_PERIOD_MINUTES, shutdown, storeVars, db_connection, startupFired,
                 lastInvocation>>

\* the reservation UPDATE issued outside the transaction: the store commits it
\* at once
UpdateReservation_Autocommit(s, ok) ==
  /\ sweep[s].pc = "updateReservation"
  /\ LET r == reservation(s).reservation_id IN
     IF ok
     THEN /\ ~LockedByOther(s, "reservations", r)
          /\ reservations' = [reservations EXCEPT ![r] = ExpireReservationRow(@)]
          /\ Goto(s, AfterReservation(reservation(s)))
     ELSE /\ Goto(s, "rollback")
          /\ UNCHANGED reservations
  /\ UNCHANGED <<clientVars, now, env_GRACE_PERIOD_MINUTES, shutdown, parking_spot, parking_section,
                 user_logs, db_connection, startupFired, lastInvocation, tx>>

UpdateReservation(s, ok) ==
  /\ sweep[s].pc = "updateReservation"
  /\ LET r == reservation(s).reservation_id IN
     IF ok
     THEN /\ ~LockedByOther(s, "reservations", r)
          /\ tx' = TxWrite(s, "reservations", r,
                           ExpireReservationRow(View(s, "reservations", reservations)[r]))
          /\ Goto(s, AfterReservation(reservation(s)))
     ELSE /\ Goto(s, "rollback")
          /\ UNCHANGED tx
  /\ UNCHANGED <<clientVars, now, env_GRACE_PERIOD_MINUTES, shutdown, storeVars, db_connection, startupFired,
                 lastInvocation>>

UpdateSpot(s, ok) ==
  /\ sweep[s].pc = "updateSpot"
  /\ LET p == reservation(s).parking_spots_id IN
     IF ok
     THEN /\ ~LockedByOther(s, "parking_spot", p)
          /\ tx' = IF p \in SpotIds
                   THEN TxWrite(s, "parking_spot", p,
                                FreeSpotRow(View(s, "parking_spot", parking_spot)[p]))
                   ELSE tx
          /\ Goto(s, AfterSpot(reservation(s)))
     ELSE /\ Goto(s, "rollback")
          /\ UNCHANGED tx
  /\ UNCHANGED <<clientVars, now, env_GRACE_PERIOD_MINUTES, shutdown, storeVars, db_connection, startupFired,
                 lastInvocation>>

UpdateSection(s, ok) ==
  /\ sweep[s].pc = "updateSection"
  /\ LET c == reservation(s).parking_section_id IN
     IF ok
     THEN /\ ~LockedByOther(s, "parking_section", c)
          /\ tx' = IF c \in SectionIds
                   THEN TxWrite(s, "parking_section", c,
                                DecrementSectionRow(View(s, "parking_section", parking_section)[c]))
                   ELSE tx
          /\ Goto(s, "commit")
     ELSE /\ Goto(s, "rollback")
          /\ UNCHANGED tx
  /\ UNCHANGED <<clientVars, now, env_GRACE_PERIOD_MINUTES, shutdown, storeVars, db_connection, startupFired,
                 lastInvocation>>

\* a failed commit that goes to the finally without a rollback
Commit_NoRollback(s, ok) ==
  /\ sweep[s].pc = "commit"
  /\ IF ok
     THEN /\ reservations' = ApplyWrites(reservations, "reservations", tx[s].writes)
          /\ parking_spot' = ApplyWrites(parking_spot, "parking_spot", tx[s].writes)
          /\ parking_section' = ApplyWrites(parking_section, "parking_section", tx[s].writes)
          /\ user_logs' = user_logs \o SelectSeq(tx[s].writes, LAMBDA w : w.table = "user_logs")
          /\ tx' = [tx EXCEPT ![s] = NoTx]
          /\ ReleaseAndContinue(s)
     ELSE /\ ReleaseAndContinue(s)
          /\ UNCHANGED <<storeVars, tx>>
  /\ UNCHANGED <<clientVars, now, env_GRACE_PERIOD_MINUTES, shutdown, db_connection, startupFired, lastInvocation>>

\* await connection.commit(); on success the finally releases the connection
\* and the loop goes on
Commit(s, ok) ==
  /\ sweep[s].pc = "commit"
  /\ IF ok
     THEN /\ reservations' = ApplyWrites(reservations, "reservations", tx[s].writes)
          /\ parking_spot' = ApplyWrites(parking_spot, "parking_spot", tx[s].writes)
          /\ parking_section' = ApplyWrites(parking_section, "parking_section", tx[s].writes)
          /\ user_logs' = user_logs \o SelectSeq(tx[s].writes, LAMBDA w : w.table = "user_logs")
          /\ tx' = [tx EXCEPT ![s] = NoTx]
          /\ ReleaseAndContinue(s)
     ELSE /\ Goto(s, "rollback")
          /\ UNCHANGED <<storeVars, tx>>
  /\ UNCHANGED <<clientVars, now, env_GRACE_PERIOD_MINUTES, shutdown, db_connection, startupFired, lastInvocation>>

\* a rollback that is not awaited: the loop goes on while the transaction is
\* still open
Rollback_NotAwaited(s, ok) ==
  /\ sweep[s].pc = "rollback"
  /\ UNCHANGED tx
  /\ IF ok THEN ReleaseAndContinue(s) ELSE FailSweep(s)
  /\ UNCHANGED <<clientVars, now, env_GRACE_PERIOD_MINUTES, shutdown, storeVars, db_connection, startupFired,
                 lastInvocation>>

\* catch: await connection.rollback().  When it succeeds the failure is logged
\* and the loop goes on; when it throws, the finally still releases the
\* connection and the error leaves the loop for the outer catch.  A rollback
\* fails when the connection is lost, and the server then discards the
\* transaction.
Rollback(s, ok) ==
  /\ sweep[s].pc = "rollback"
  /\ tx' = [tx EXCEPT ![s] = NoTx]
  /\ IF ok THEN ReleaseAndContinue(s) ELSE FailSweep(s)
  /\ UNCHANGED <<clientVars, now, env_GRACE_PERIOD_MINUTES, shutdown, storeVars, db_connection, startupFired,
                 lastInvocation>>

\* ---------------------------------------------------------------- shutdown
\* process.on('SIGTERM' | 'SIGINT', …): the two signals have the same
\* handlers, and both handlers of a signal run in one synchronous stretch:
\* the first logs and calls db.disconnect(), the second clears the interval;
\* the handle of the startup setTimeout is kept nowhere and is not cleared
OnSignal ==
  /\ shutdown = "running"
  /\ shutdown' = "draining"
  /\ UNCHANGED <<clientVars, now, env_GRACE_PERIOD_MINUTES, storeVars, db_connection,
                 isGracePeriodCheckRunning, startupFired, lastInvocation, sweepVars>>

\* await db.disconnect() of the signal handler has settled.  db is
\* ./config/database, which is not among the sources; by the shutdown contract
\* of the store the wait on the disconnect lets the transaction of the
\* candidate in progress finish first
DisconnectSettled == \A s \in Slots : ~tx[s].open

\* an exit that does not wait for the disconnect
ProcessExit_NotAwaited ==
  /\ shutdown = "draining"
  /\ shutdown' = "exited"
  /\ db_connection' = FALSE
  /\ isGracePeriodCheckRunning' = FALSE
  /\ sweep' = [s \in Slots |-> NoFrame("idle")]
  /\ tx' = [s \in Slots |-> NoTx]
  /\ UNCHANGED <<clientVars, now, env_GRACE_PERIOD_MINUTES, storeVars, startupFired, lastInvocation>>

\* await db.disconnect(); process.exit(0): once the disconnect has settled the
\* process and its connections are gone
ProcessExit ==
  /\ shutdown = "draining"
  /\ DisconnectSettled
  /\ shutdown' = "exited"
  /\ db_connection' = FALSE
  /\ isGracePeriodCheckRunning' = FALSE
  /\ sweep' = [s \in Slots |-> NoFrame("idle")]
  /\ tx' = [s \in Slots |-> NoTx]
  /\ UNCHANGED <<clientVars, now, env_GRACE_PERIOD_MINUTES, storeVars, startupFired, lastInvocation>>

\* ------------------------------------------------------------ specification
Next ==
  \/ Tick
  \/ \E p \in SpotIds, m \in {0, ExpiredTestAgeMinutes} : CreateSpotReservation(p, m)
  \/ \E c \in SectionIds : CreateCapacityReservation(c)
  \/ \E r \in 1..MaxRes : StartSession(r)
  \/ StartupTimer
  \/ IntervalTimer
  \/ \E s \in Slots, ok \in BOOLEAN : ensureDbPool(s, ok)
  \/ \E s \in Slots, ok \in BOOLEAN : Scan(s, ok)
  \/ \E s \in Slots, ok \in BOOLEAN : GetConnection(s, ok)
  \/ \E s \in Slots, ok \in BOOLEAN : BeginTransaction(s, ok)
  \/ \E s \in Slots, ok \in BOOLEAN : UpdateReservation(s, ok)
  \/ \E s \in Slots, ok \in BOOLEAN : UpdateSpot(s, ok)
  \/ \E s \in Slots, ok \in BOOLEAN : UpdateSection(s, ok)
  \/ \E s \in Slots, ok \in BOOLEAN : Commit(s, ok)
  \/ \E s \in Slots, ok \in BOOLEAN : Rollback(s, ok)
  \/ OnSignal
  \/ ProcessExit

Spec == Init /\ [][Next]_vars

\* ------------------------------------------------------------- vocabulary
\* an invocation between setting the guard and clearing it
InFlight(s) == ~Returned(s)

\* the reservation ids a scan returned to invocation s
CandidateIds(s) ==
  {sweep[s].expiredReservations[k].reservation_id :
     k \in 1..Len(sweep[s].expiredReservations)}

\* the step in which the transaction of invocation s commits
CommitStep(s) ==
  sweep[s].pc = "commit" /\ sweep'[s].pc \in {"getConnection", "done"}

\* the step in which the transaction of invocation s ends, committed or rolled back
TxEndStep(s) ==
  sweep[s].pc \in {"commit", "rollback"} /\ sweep'[s].pc \in {"getConnection", "done", "failed"}

\* a call of runGracePeriodCheck that the model can see
InvocationStep == lastInvocation' # lastInvocation \/ startupFired' # startupFired

\* user_logs rows of reservation r
LogsOf(r) == {k \in 1..Len(user_logs) : user_logs[k].reservation_id = r}

\* ---------------------------------------------------------------- claims
\* C1: at most one sweep is in flight at any time: no two invocations of
\* runGracePeriodCheck are at once between setting the guard and clearing it.
C1_AtMostOneSweepInFlight ==
  Cardinality({s \in Slots : InFlight(s)}) <= 1

\* a sweep is in the middle of a candidate's transaction and the latest
\* trigger found it running
C1_Witness ==
  \E s \in Slots : sweep[s].pc = "commit" /\ lastInvocation = "skipped"

\* C2: an invocation made while a sweep is in flight is skipped: it starts no
\* sweep, issues no store operation and leaves the guard set; an invocation
\* made while none is in flight executes; so two triggers in rapid succession
\* give one executed and one skipped sweep.
C2_OverlappingInvocationSkipped ==
  [][ /\ isGracePeriodCheckRunning =>
           /\ \A s \in Slots : sweep'[s].pc = "ensureDbPool" => sweep[s].pc = "ensureDbPool"
           /\ InvocationStep =>
                 /\ lastInvocation' = "skipped"
                 /\ UNCHANGED <<storeVars, db_connection, isGracePeriodCheckRunning, sweepVars>>
      /\ (~isGracePeriodCheckRunning /\ InvocationStep) =>
           /\ lastInvocation' = "executed"
           /\ isGracePeriodCheckRunning'
           /\ Cardinality({s \in Slots : sweep'[s].pc = "ensureDbPool"}) = 1
    ]_vars

\* the second of two triggers in rapid succession: the first sweep has not
\* passed its first await and the second call was skipped
C2_Witness ==
  /\ lastInvocation = "skipped"
  /\ isGracePeriodCheckRunning
  /\ \E s \in Slots : sweep[s].pc = "ensureDbPool"

\* C3 (as claimed): when a candidate's transaction ends, the committed store
\* has either all of {reservation invalid, concrete spot available, section
\* counter decremented, one audit row appended} or none of them.
C3_AllOrNothingWithAudit ==
  [][ \A s \in Slots : TxEndStep(s) =>
        LET c == reservation(s)
            r == c.reservation_id
        IN \/ UNCHANGED storeVars
           \/ /\ reservations'[r].booking_status = "invalid"
              /\ c.parking_spots_id # 0 =>
                    parking_spot'[c.parking_spots_id].status = "available"
              /\ Truthy(c.parking_section_id) =>
                    parking_section'[c.parking_section_id].reserved_count =
                       Max(parking_section[c.parking_section_id].reserved_count - 1, 0)
              /\ Len(user_logs') = Len(user_logs) + 1
              /\ user_logs'[Len(user_logs')].reservation_id = r
    ]_vars

\* C4 (as claimed): the engine turns a reservation invalid only from
\* reserved, with start_time unset and an age of at least the grace period.
C4_InvalidOnlyFromReserved ==
  [][ \A r \in DOMAIN reservations :
        (reservations'[r].booking_status = "invalid" /\
         reservations[r].booking_status # "invalid") =>
           /\ reservations[r].booking_status = "reserved"
           /\ reservations[r].start_time = NULL
           /\ \E s \in Slots :
                 /\ CommitStep(s)
                 /\ now - reservations[r].time_stamp >= sweep[s].GRACE_PERIOD_MINUTES * TicksPerMinute
    ]_vars

\* C5 (as claimed): a failure in one candidate's expiry, at whatever step,
\* does not keep the sweep from the remaining candidates: a sweep returns
\* only from the last candidate of its scan, never leaving later ones out.
C5_FailureDoesNotAbortSweep ==
  [][ \A s \in Slots :
        (InFlight(s) /\ sweep'[s].pc \in {"done", "failed"} /\
         Len(sweep[s].expiredReservations) > 0) =>
           sweep[s].idx = Len(sweep[s].expiredReservations) ]_vars

\* C6 (as claimed): for every section, reserved_count is the number of
\* reserved reservations that reference it with no concrete spot.
C6_ReservedCountMatches ==
  \A c \in SectionIds :
    parking_section[c].reserved_count =
      Cardinality({r \in DOMAIN reservations :
                     /\ reservations[r].booking_status = "reserved"
                     /\ reservations[r].parking_section_id = c
                     /\ reservations[r].parking_spots_id = 0})

\* C7: no reservation is processed twice: an expiry never commits for a
\* reservation that an earlier expiry has already set to invalid, so over any
\* sequence of sweeps at most one expiry commits per reservation.
C7_AtMostOneExpiryPerReservation ==
  [][ \A s \in Slots : CommitStep(s) =>
        reservations[reservation(s).reservation_id].booking_status # "invalid" ]_vars

\* a later sweep is committing another candidate after an earlier expiry, and
\* a trigger was skipped meanwhile
C7_Witness ==
  \E s \in Slots, r \in DOMAIN reservations :
    /\ sweep[s].pc = "commit"
    /\ reservations[r].booking_status = "invalid"
    /\ r \notin CandidateIds(s)
    /\ lastInvocation = "skipped"

\* C8: a section's reserved_count is never negative, in the committed store
\* and in the rows an open expiry transaction has written.
C8_ReservedCountNeverNegative ==
  /\ \A c \in SectionIds : parking_section[c].reserved_count >= 0
  /\ \A s \in Slots, c \in SectionIds :
        View(s, "parking_section", parking_section)[c].reserved_count >= 0

\* the expiry path has decremented a counter that was already 0
C8_Witness ==
  \E s \in Slots, c \in SectionIds :
    /\ sweep[s].pc = "commit"
    /\ reservation(s).parking_section_id = c
    /\ parking_section[c].reserved_count = 0
    /\ View(s, "parking_section", parking_section)[c].reserved_count = 0

\* C9: a successful scan returns, once each, exactly the reservations that at
\* scan time are reserved, have no start_time and are at least the grace
\* period old in whole minutes, with each one's spot and section reference.
C9_ScanReturnsExactlyEligible ==
  [][ \A s \in Slots :
        (sweep[s].pc = "scan" /\ sweep'[s].pc \in {"getConnection", "done"}) =>
          LET rows == sweep'[s].expiredReservations IN
          /\ {rows[k].reservation_id : k \in 1..Len(rows)} =
               {r \in DOMAIN reservations :
                  /\ reservations[r].booking_status = "reserved"
                  /\ reservations[r].start_time = NULL
                  /\ now - reservations[r].time_stamp >=
                        sweep[s].GRACE_PERIOD_MINUTES * TicksPerMinute}
          /\ \A j, k \in 1..Len(rows) : rows[j].reservation_id = rows[k].reservation_id => j = k
          /\ \A k \in 1..Len(rows) :
                /\ rows[k].parking_spots_id = reservations[rows[k].reservation_id].parking_spots_id
                /\ rows[k].parking_section_id = reservations[rows[k].reservation_id].parking_section_id
    ]_vars

\* the boundary: the scan has just returned a reservation aged exactly the
\* grace period and left out a reserved one that is younger
C9_Witness ==
  \E s \in Slots, r, q \in DOMAIN reservations :
    /\ sweep[s].pc = "getConnection" /\ sweep[s].idx = 1
    /\ r \in CandidateIds(s)
    /\ now - reservations[r].time_stamp = sweep[s].GRACE_PERIOD_MINUTES * TicksPerMinute
    /\ q \notin CandidateIds(s)
    /\ reservations[q].booking_status = "reserved"
    /\ reservations[q].time_stamp <= now
    /\ now - reservations[q].time_stamp < sweep[s].GRACE_PERIOD_MINUTES * TicksPerMinute

SweepStep(ok) ==
  \E s \in Slots :
    \/ ensureDbPool(s, ok) \/ Scan(s, ok) \/ GetConnection(s, ok)
    \/ BeginTransaction(s, ok) \/ UpdateReservation(s, ok) \/ UpdateSpot(s, ok)
    \/ UpdateSection(s, ok) \/ Commit(s, ok) \/ Rollback(s, ok)

\* Every timer that is due fires (setTimeout once, setInterval again and
\* again) and every await of a sweep settles, one way or the other.
Fairness ==
  /\ WF_vars(StartupTimer)
  /\ WF_vars(IntervalTimer)
  /\ WF_vars(SweepStep(TRUE) \/ SweepStep(FALSE))

FairSpec == Init /\ [][Next]_vars /\ Fairness

\* the expiry transaction of invocation s has failed and its candidate r is
\* still reserved and not started: the invocation is in its catch block
FailedCandidate(s, r) ==
  /\ sweep[s].pc = "rollback"
  /\ reservation(s).reservation_id = r
  /\ reservations[r].booking_status = "reserved"
  /\ reservations[r].start_time = NULL

\* C11: a candidate whose expiry transaction fails keeps its reservation,
\* spot and section rows as they were (the failing step and the rollback
\* change nothing in the store); it is still eligible under the threshold the
\* next sweep reads, so the next scan returns it; and when the timers keep
\* firing (the process is not shut down) and from some time on no store
\* operation fails, it is eventually invalid unless its session is started.
C11_FailedCandidateRetried ==
  /\ [][ \A s \in Slots :
           (sweep[s].pc # sweep'[s].pc /\ "rollback" \in {sweep[s].pc, sweep'[s].pc})
              => UNCHANGED storeVars ]_vars
  /\ [](\A s \in Slots, r \in DOMAIN reservations :
          FailedCandidate(s, r) =>
             Eligible(reservations[r], ParseGracePeriod(env_GRACE_PERIOD_MINUTES)))
  /\ ([](shutdown = "running") /\ <>[][~SweepStep(FALSE)]_vars) =>
      \A r \in 1..MaxRes :
        (\E s \in Slots : r \in DOMAIN reservations /\ FailedCandidate(s, r))
           ~> (/\ r \in DOMAIN reservations
               /\ (reservations[r].booking_status = "invalid" \/ reservations[r].start_time # NULL))

\* a transaction that had written the reservation and the section row is
\* being rolled back after its commit failed, the candidate still reserved
C11_Witness ==
  \E s \in Slots, r \in DOMAIN reservations :
    /\ FailedCandidate(s, r)
    /\ Len(tx[s].writes) >= 2
    /\ reservation(s).parking_section_id \in SectionIds
    /\ parking_section[reservation(s).parking_section_id].reserved_count >= 1

\* C12: when obtaining the pool or the scan fails, the sweep returns at once:
\* the failing step changes no reservation, spot or section row, the
\* invocation has no candidate, holds no connection and has no transaction
\* open, before the step and after it.
C12_FailedScanAttemptsNothing ==
  [][ \A s \in Slots :
        (sweep[s].pc \in {"ensureDbPool", "scan"} /\ sweep'[s].pc # sweep[s].pc) =>
           /\ UNCHANGED storeVars
           /\ sweep[s].expiredReservations = <<>> /\ ~sweep[s].connection
           /\ tx[s] = NoTx /\ tx'[s] = NoTx
           /\ sweep'[s].pc = "failed" =>
                 (sweep'[s].expiredReservations = <<>> /\ ~sweep'[s].connection)
    ]_vars

\* the pool could not be obtained while a reservation was due: the sweep has
\* returned through its catch and the reservation is untouched
C12_Witness ==
  \E s \in Slots, r \in DOMAIN reservations :
    /\ sweep[s].pc = "failed"
    /\ ~db_connection
    /\ Eligible(reservations[r], ParseGracePeriod(env_GRACE_PERIOD_MINUTES))
    /\ parking_spot[1].status = "reserved"

\* C13: no failure inside a sweep leaves runGracePeriodCheck as a rejection:
\* an invocation is suspended at one of its awaits or has returned, from the
\* end of its try block or through its outer catch; the guard is set exactly
\* while one is suspended; and the interval callback can run as long as no
\* signal has cleared it.
C13_NoFailurePropagates ==
  /\ \A s \in Slots :
        sweep[s].pc \in {"idle", "done", "failed", "ensureDbPool", "scan", "getConnection",
                         "beginTransaction", "updateReservation", "updateSpot",
                         "updateSection", "commit", "rollback"}
  /\ isGracePeriodCheckRunning <=> (\E s \in Slots : InFlight(s))
  /\ (startupFired /\ shutdown = "running") => ENABLED IntervalTimer

\* a sweep that had committed one expiry failed at the next candidate and
\* returned through its catch, the guard cleared
C13_Witness ==
  \E s \in Slots, r, q \in DOMAIN reservations :
    /\ sweep[s].pc = "failed"
    /\ ~isGracePeriodCheckRunning
    /\ reservations[r].booking_status = "invalid"
    /\ Eligible(reservations[q], ParseGracePeriod(env_GRACE_PERIOD_MINUTES))

\* the reserved reservations that hold spot p
ReservedOn(p) ==
  {r \in DOMAIN reservations :
     reservations[r].booking_status = "reserved" /\ reservations[r].parking_spots_id = p}

C15_CapacityOnlyLeavesSpots ==
  [][ \A s \in Slots :
        /\ sweep'[s].pc = "updateSpot" =>
              sweep'[s].expiredReservations[sweep'[s].idx].parking_spots_id # 0
        /\ (CommitStep(s) /\ reservation(s).parking_spots_id = 0) =>
              LET r == reservation(s).reservation_id
                  c == reservation(s).parking_section_id
              IN /\ UNCHANGED <<parking_spot, user_logs>>
                 /\ \A q \in DOMAIN reservations : q # r => reservations'[q] = reservations[q]
                 /\ \A d \in SectionIds :
                       /\ parking_section'[d].parked_count = parking_section[d].parked_count
                       /\ d # c => parking_section'[d] = parking_section[d]
    ]_vars

\* a capacity-only reservation has been expired while the numbered spot is
\* held by another reservation
C15_Witness ==
  \E r, q \in DOMAIN reservations :
    /\ reservations[r].parking_spots_id = 0
    /\ reservations[r].booking_status = "invalid"
    /\ reservations[q].parking_spots_id = 1
    /\ reservations[q].booking_status = "reserved"
    /\ parking_spot[1].status = "reserved"

\* C16: the expiry of a candidate without a section issues no section
\* update and still commits: the reservation becomes invalid, its numbered
\* spot, if it has one, becomes available, and no section row changes.
C16_AbsentSectionStillCommits ==
  [][ \A s \in Slots :
        /\ sweep'[s].pc = "updateSection" =>
              Truthy(sweep'[s].expiredReservations[sweep'[s].idx].parking_section_id)
        /\ (CommitStep(s) /\ ~Truthy(reservation(s).parking_section_id)) =>
              LET r == reservation(s).reservation_id
                  p == reservation(s).parking_spots_id
              IN /\ reservations'[r].booking_status = "invalid"
                 /\ p # 0 => (parking_spot'[p].status = "available" /\
                              parking_spot'[p].is_occupied = 0)
                 /\ UNCHANGED parking_section
    ]_vars

\* a reservation without a section has been expired and its spot is free,
\* while the section still carries a hold of another reservation
C16_Witness ==
  \E r \in DOMAIN reservations :
    /\ reservations[r].parking_section_id = NULL
    /\ reservations[r].booking_status = "invalid"
    /\ reservations[r].parking_spots_id = 1
    /\ parking_spot[1].status = "available"
    /\ parking_section[1].reserved_count = 1

\* a sweep starts: an invocation goes from the guard to its first await
SweepStarts == \E s \in Slots : sweep'[s].pc = "ensureDbPool" /\ sweep[s].pc # "ensureDbPool"

\* C17 (as claimed): once a signal has been received, neither timer invokes
\* runGracePeriodCheck and no sweep starts.
C17_NoSweepAfterShutdown ==
  [][ shutdown # "running" => (~InvocationStep /\ ~SweepStarts) ]_vars

\* no failure and no other writer has come between invocation s and its
\* candidates so far: the ones before the loop's position are invalid and
\* were never started, the ones from it on are reserved and not started
UndisturbedSoFar(s) ==
  \A k \in 1..Len(sweep[s].expiredReservations) :
    LET row == reservations[sweep[s].expiredReservations[k].reservation_id] IN
    /\ row.start_time = NULL
    /\ row.booking_status = IF k < sweep[s].idx THEN "invalid" ELSE "reserved"

\* C18 (as claimed): a sweep without failures reaches every candidate of its
\* scan, and, when no failure and no other writer has disturbed the sweep,
\* the expiry of a candidate sets its reservation invalid, frees its numbered
\* spot, takes exactly one off its section's reserved_count, and leaves
\* every other reservation and spot as it was.
C18_SweepExpiresEligibleOnly ==
  [][ \A s \in Slots :
        /\ (InFlight(s) /\ sweep'[s].pc = "done" /\ Len(sweep[s].expiredReservations) > 0) =>
              sweep[s].idx = Len(sweep[s].expiredReservations)
        /\ (CommitStep(s) /\ UndisturbedSoFar(s)) =>
              LET r == reservation(s).reservation_id
                  p == reservation(s).parking_spots_id
                  c == reservation(s).parking_section_id
              IN /\ reservations'[r].booking_status = "invalid"
                 /\ p # 0 => parking_spot'[p].status = "available"
                 /\ Truthy(c) =>
                       parking_section'[c].reserved_count = parking_section[c].reserved_count - 1
                 /\ \A q \in DOMAIN reservations : q # r => reservations'[q] = reservations[q]
                 /\ \A q \in SpotIds : q # p => parking_spot'[q] = parking_spot[q]
    ]_vars

\* C19 (as claimed): a sweep whose scan returns no candidate changes nothing
\* in the store and reports the summary (0, 0, 0), every time it is run.
C19_EmptySweepIsIdempotent ==
  [][ \A s \in Slots :
        (sweep[s].pc = "scan" /\ sweep'[s].pc = "done") =>
           /\ UNCHANGED storeVars
           /\ sweep'[s].summary # "undefined"
           /\ sweep'[s].summary = [attempted |-> 0, succeeded |-> 0, failed |-> 0]
    ]_vars

\* C20 (as claimed): every executed sweep returns a summary whose attempted
\* is the number of candidates of its scan and equals succeeded + failed.
C20_SummaryAddsUp ==
  [][ \A s \in Slots :
        (InFlight(s) /\ sweep'[s].pc \in {"done", "failed"}) =>
           /\ sweep'[s].summary # "undefined"
           /\ sweep'[s].summary.attempted = Len(sweep[s].expiredReservations)
           /\ sweep'[s].summary.attempted =
                 sweep'[s].summary.succeeded + sweep'[s].summary.failed
    ]_vars

\* the awaits of the inner try and its catch: where invocation s holds the
\* connection it took from the pool
HoldsConnectionAt ==
  {"beginTransaction", "updateReservation", "updateSpot", "updateSection",
   "commit", "rollback"}

\* C21: a connection is taken from the pool only by getConnection, is held
\* through the candidate's transaction, and is given back in the step that
\* ends the transaction, whether by commit, by rollback or by a rollback
\* that fails, and at no other step of the running process; a transaction
\* is open only on a held connection, and a sweep that has ended holds none.
C21_ConnectionReleasedOnce ==
  /\ [](\A s \in Slots :
          /\ sweep[s].connection <=> sweep[s].pc \in HoldsConnectionAt
          /\ tx[s].open => sweep[s].connection
          /\ Returned(s) => ~sweep[s].connection)
  /\ [][ \A s \in Slots :
           /\ TxEndStep(s) => (sweep[s].connection /\ ~sweep'[s].connection)
           /\ (sweep[s].connection /\ ~sweep'[s].connection /\ shutdown' # "exited") =>
                 TxEndStep(s)
           /\ (~sweep[s].connection /\ sweep'[s].connection) =>
                 (sweep[s].pc = "getConnection" /\ sweep'[s].pc = "beginTransaction")
       ]_vars

\* a sweep has given back the connection of its first candidate and is about
\* to take one for its second
C21_Witness ==
  \E s \in Slots :
    /\ sweep[s].pc = "getConnection"
    /\ sweep[s].idx = 2
    /\ ~sweep[s].connection
    /\ ~tx[s].open

\* what the caller of invocation s can tell a failure by: a rejected promise
\* or a value returned in place of undefined
SurfacedToCaller(s) == sweep[s].pc = "rejected" \/ sweep[s].summary # "undefined"

\* the step in which ensureDbPool fails for invocation s: db.connect() rejected
PoolFailureStep(s) == sweep[s].pc = "ensureDbPool" /\ sweep'[s].pc = "failed"

\* C22 (as claimed): when establishing the pool fails, the sweep ends without
\* a second attempt to connect and without touching the store, and its caller
\* is given the failure.
C22_PoolFailureSurfaced ==
  [][ \A s \in Slots :
        PoolFailureStep(s) =>
           /\ ~db_connection'
           /\ Returned(s)'
           /\ UNCHANGED storeVars
           /\ SurfacedToCaller(s)'
    ]_vars

\* the expiry transactions open on the engine's connections
OpenTransactions == {s \in Slots : tx[s].open}

\* C23: the loop of a sweep walks the rows of its scan one by one in the
\* order the scan returned them: its position moves only from a candidate to
\* the next one, in the step that ends the candidate's transaction, with the
\* transaction closed and the connection given back; a transaction is begun
\* only at beginTransaction on a freshly taken connection while no other
\* transaction of the engine is open; so at most one is open at any moment.
C23_OneCandidateAtATime ==
  /\ [](Cardinality(OpenTransactions) <= 1)
  /\ [][ \A s \in Slots :
           /\ (InFlight(s) /\ InFlight(s)' /\ sweep[s].pc # "scan") =>
                 sweep'[s].expiredReservations = sweep[s].expiredReservations
           /\ (InFlight(s)' /\ sweep'[s].idx # sweep[s].idx) =>
                 \/ sweep[s].pc = "scan" /\ sweep'[s].idx = 1
                 \/ /\ TxEndStep(s)
                    /\ sweep'[s].idx = sweep[s].idx + 1
                    /\ sweep'[s].pc = "getConnection"
                    /\ ~tx'[s].open
                    /\ ~sweep'[s].connection
           /\ TxEndStep(s) => ~tx'[s].open
           /\ (~tx[s].open /\ tx'[s].open) =>
                 /\ sweep[s].pc = "beginTransaction"
                 /\ sweep[s].connection
                 /\ OpenTransactions = {}
       ]_vars

\* a sweep is inside the transaction of its second candidate after the
\* transaction of its first one has committed
C23_Witness ==
  \E s \in Slots :
    /\ sweep[s].idx = 2
    /\ sweep[s].pc = "updateReservation"
    /\ tx[s].open
    /\ reservations[sweep[s].expiredReservations[1].reservation_id].booking_status = "invalid"

\* the step in which another writer commits a reservation against section c
IncrementStep(c) ==
  /\ Len(reservations') = Len(reservations) + 1
  /\ reservations'[Len(reservations')].parking_section_id = c

\* the step in which a sweep commits the expiry of a candidate of section c
ExpiryCommitStep(c) ==
  \E s \in Slots : CommitStep(s) /\ reservation(s).parking_section_id = c

\* C24: no update of a section counter is lost.  Every committed expiry of a
\* candidate of section c takes one off the reserved_count committed at that
\* moment (down to the floor 0), every increment another writer commits adds
\* one to it, also while a sweep is in flight, and apart from a session start
\* nothing else changes it: after k expiries and m increments the counter is
\* its initial value + m - k when the floor is not reached.
C24_NoLostCounterUpdate ==
  [][ \A c \in SectionIds :
        LET before == parking_section[c].reserved_count
            after == parking_section'[c].reserved_count
        IN /\ ExpiryCommitStep(c) =>
                 /\ after = GreatestDecrement(before)
                 /\ before >= 1 => after = before - 1
           /\ IncrementStep(c) => after = before + 1
           /\ after # before =>
                 \/ ExpiryCommitStep(c)
                 \/ IncrementStep(c)
                 \/ \E r \in DOMAIN reservations :
                       /\ reservations[r].parking_section_id = c
                       /\ reservations[r].booking_status = "reserved"
                       /\ reservations'[r].booking_status = "active"
    ]_vars

\* a sweep that scanned one candidate is about to commit its decrement of the
\* section counter, and another writer has committed an increment of that
\* counter since the scan: the hold it inserted is old enough to have been
\* a candidate of any scan that saw it
C24_Witness ==
  \E s \in Slots :
    /\ sweep[s].pc = "commit"
    /\ Len(sweep[s].expiredReservations) = 1
    /\ Len(reservations) = 2
    /\ reservations[2].parking_section_id = 1
    /\ reservations[2].booking_status = "reserved"
    /\ reservations[2].time_stamp + DefaultGracePeriodMinutes * TicksPerMinute <= 0
    /\ reservation(s).parking_section_id = 1
    /\ parking_section[1].reserved_count = 2
    /\ \E k \in 1..Len(tx[s].writes) :
          /\ tx[s].writes[k].table = "parking_section"
          /\ tx[s].writes[k].row.reserved_count = 1

\* reservation r turns invalid in the rows every connection can read
BecomesInvalid(r) ==
  reservations[r].booking_status # "invalid" /\ reservations'[r].booking_status = "invalid"

\* C25: no reader sees a partial expiry.  The committed rows change only in
\* the step that commits a candidate's transaction, never at an update inside
\* it; in the step in which a reservation turns invalid its numbered spot
\* reads available and its section's counter has had the decrement applied;
\* and a spot goes from reserved to available only in the step in which the
\* reservation that holds it turns invalid.
C25_NoPartialExpiryVisible ==
  [][ /\ \A s \in Slots :
           (sweep[s].pc \in HoldsConnectionAt /\ sweep'[s] # sweep[s] /\ ~CommitStep(s)) =>
              UNCHANGED storeVars
      /\ \A r \in DOMAIN reservations :
           BecomesInvalid(r) =>
              LET p == reservations[r].parking_spots_id
                  c == reservations[r].parking_section_id
              IN /\ \E s \in Slots : CommitStep(s) /\ reservation(s).reservation_id = r
                 /\ p # 0 => (parking_spot'[p].status = "available" /\
                              parking_spot'[p].is_occupied = 0)
                 /\ Truthy(c) => parking_section'[c].reserved_count =
                                    GreatestDecrement(parking_section[c].reserved_count)
      /\ \A p \in SpotIds :
           (parking_spot[p].status = "reserved" /\ parking_spot'[p].status = "available") =>
              \E r \in DOMAIN reservations :
                 reservations[r].parking_spots_id = p /\ BecomesInvalid(r)
    ]_vars

\* a sweep has written all three rows of a candidate inside its transaction
\* and every other connection still reads the hold as it was
C25_Witness ==
  \E s \in Slots :
    /\ sweep[s].pc = "commit"
    /\ Len(tx[s].writes) = 3
    /\ reservations[reservation(s).reservation_id].booking_status = "reserved"
    /\ parking_spot[reservation(s).parking_spots_id].status = "reserved"
    /\ parking_section[reservation(s).parking_section_id].reserved_count = 1
    /\ View(s, "reservations", reservations)[reservation(s).reservation_id].booking_status
          = "invalid"

\* invocation s gives its connection back to the pool of the running process
ReleaseStep(s) ==
  sweep[s].connection /\ ~sweep'[s].connection /\ shutdown' # "exited"

\* C26: inside the inner try a step of invocation s either goes on with the
\* transaction, or commits it, or, on a failure of begin, of an update or of
\* the commit, goes to the rollback with the connection still held.  The
\* connection is given back only from a commit that has written the
\* candidate's rows or from the rollback, and the connection given back has
\* no open transaction.
C26_RollbackBeforeRelease ==
  [][ \A s \in Slots :
        /\ (sweep[s].pc \in HoldsConnectionAt \ {"rollback"} /\ sweep'[s] # sweep[s]
              /\ shutdown' # "exited") =>
              \/ sweep'[s].pc = "rollback" /\ sweep'[s].connection /\ UNCHANGED storeVars
              \/ /\ sweep'[s].pc \in {"updateReservation", "updateSpot", "updateSection", "commit"}
                 /\ sweep'[s].connection
                 /\ tx'[s].open
              \/ CommitStep(s)
        /\ ReleaseStep(s) =>
              /\ ~tx'[s].open
              /\ \/ sweep[s].pc = "rollback"
                 \/ /\ CommitStep(s)
                    /\ reservations'[reservation(s).reservation_id].booking_status = "invalid"
    ]_vars

\* the commit of a candidate with a spot and a section has failed: the sweep
\* is at the rollback, on the connection it still holds, with the transaction
\* and its three writes still open
C26_Witness ==
  \E s \in Slots :
    /\ sweep[s].pc = "rollback"
    /\ sweep[s].connection
    /\ tx[s].open
    /\ Len(tx[s].writes) = 3

ExitStep == shutdown = "draining" /\ shutdown' = "exited"

C30_GuardGivenBack ==
  /\ [][ \A s \in Slots :
           (InFlight(s) /\ Returned(s)') => ~isGracePeriodCheckRunning' ]_vars
  /\ [][ ~isGracePeriodCheckRunning =>
           /\ lastInvocation # "skipped" => lastInvocation' # "skipped"
           /\ InvocationStep => (SweepStarts /\ isGracePeriodCheckRunning' /\
                                 lastInvocation' = "executed") ]_vars
  /\ (isGracePeriodCheckRunning ~> ~isGracePeriodCheckRunning)

\* a sweep has ended through its outer catch before it expired anything, the
\* pool is there, the guard is clear and the interval timer can start the
\* next sweep
C30_Witness ==
  /\ \E s \in Slots : sweep[s].pc = "failed"
  /\ db_connection
  /\ ~isGracePeriodCheckRunning
  /\ lastInvocation = "executed"
  /\ \A r \in DOMAIN reservations : reservations[r].booking_status # "invalid"
  /\ \E r \in DOMAIN reservations :
        Eligible(reservations[r], ParseGracePeriod(env_GRACE_PERIOD_MINUTES))
  /\ ENABLED IntervalTimer

\* ------------------------------------------------- a changing environment
\* process.env.GRACE_PERIOD_MINUTES is assigned another value while the
\* process runs
SetEnv(v) ==
  /\ shutdown # "exited"
  /\ v # env_GRACE_PERIOD_MINUTES
  /\ env_GRACE_PERIOD_MINUTES' = v
  /\ UNCHANGED <<clientVars, now, shutdown, storeVars, db_connection, isGracePeriodCheckRunning,
                 startupFired, lastInvocation, sweepVars>>

\* the process started without GRACE_PERIOD_MINUTES in its environment
EnvInit == Init /\ env_GRACE_PERIOD_MINUTES = "unset"

NextWithEnv ==
  \/ Next
  \/ \E v \in EnvValues : SetEnv(v)

EnvSpec == EnvInit /\ [][NextWithEnv]_vars

\* C29 (as claimed): the threshold is fixed at process start: in a process
\* started without GRACE_PERIOD_MINUTES every sweep uses the default of 15
\* minutes, whatever is assigned to the environment value after the start.
C29_ThresholdFixedAtStart ==
  \A s \in Slots : InFlight(s) => sweep[s].GRACE_PERIOD_MINUTES = DefaultGracePeriodMinutes

\* ------------------------------------------- ExpirationModalProvider (client)
\* the calls between two awaits run as one step; the two state setters of a
\* handler are applied together

\* JSON.parse(stored) throws on text that is no JSON
ParseThrows(item) == item.text = "garbage"

\* JSON.parse(stored): the object the text stands for
JsonParse(item) == item.value

\* !timestamp, for timestamp = parsed?.timestamp
TimestampMissing(parsed) ==
  \/ "timestamp" \notin DOMAIN parsed
  \/ parsed.timestamp = 0

\* Date.now() - timestamp > EXPIRATION_MODAL_MAX_AGE_MS
TooOld(parsed) == clientNow - parsed.timestamp > EXPIRATION_MODAL_MAX_AGE_MS

\* the texts another part of the client can have stored under the key: the
\* details of an expiry stamped with the current time, details without a
\* timestamp, and text that does not parse
PendingTexts(id) ==
  { [text |-> "object", value |-> [reservationId |-> id, timestamp |-> clientNow]],
    [text |-> "object", value |-> [reservationId |-> id]],
    [text |-> "garbage", id |-> id] }

ClientTick ==
  /\ clientNow < MaxClientTicks * ClockStepMs
  /\ clientNow' = clientNow + ClockStepMs
  /\ UNCHANGED <<serverVars, storage, recordsWritten, showExpirationModal,
                 expirationDetails, calls,
                 timesShown>>

\* AsyncStorage.setItem(PENDING_EXPIRATION_STORAGE_KEY, …) by the part of the
\* client that learns of an expiry
StorePending(item) ==
  /\ recordsWritten < MaxRecords
  /\ item \in PendingTexts(recordsWritten + 1)
  /\ storage' = item
  /\ recordsWritten' = recordsWritten + 1
  /\ UNCHANGED <<serverVars, clientNow, showExpirationModal, expirationDetails, calls,
                 timesShown>>

\* a close that clears the details and leaves the modal shown
handleExpirationModalClose_DetailsOnly ==
  /\ expirationDetails' = NullDetails
  /\ UNCHANGED <<serverVars, clientNow, storage, recordsWritten, timesShown, calls, showExpirationModal>>

\* handleExpirationModalClose
handleExpirationModalClose ==
  /\ showExpirationModal' = FALSE
  /\ expirationDetails' = NullDetails
  /\ UNCHANGED <<serverVars, clientNow, storage, recordsWritten, timesShown, calls>>

\* showExpirationModalWithDetails(details)
showExpirationModalWithDetails(details) ==
  /\ expirationDetails' = details
  /\ showExpirationModal' = TRUE
  /\ UNCHANGED <<serverVars, clientNow, storage, recordsWritten, timesShown, calls>>

\* checkPendingReservationExpiration() up to its first await
checkPendingReservationExpiration(c) ==
  /\ calls[c].pc = "idle"
  /\ \A d \in CallSlots : calls[d].pc = "idle" => c <= d
  /\ calls' = [calls EXCEPT ![c] = [pc |-> "getItem", stored |-> NoItem]]
  /\ UNCHANGED <<serverVars, clientNow, storage, recordsWritten, showExpirationModal,
                 expirationDetails, timesShown>>

\* await AsyncStorage.getItem(…); if (!stored) return; a rejection is caught
\* and logged
GetItem(c, ok) ==
  /\ calls[c].pc = "getItem"
  /\ calls' = IF ok /\ storage # NoItem
              THEN [calls EXCEPT ![c] = [pc |-> "removeItem", stored |-> storage]]
              ELSE [calls EXCEPT ![c] = NoCall]
  /\ UNCHANGED <<serverVars, clientNow, storage, recordsWritten, showExpirationModal,
                 expirationDetails, timesShown>>

\* the record passes the checks of lines 60-65 and is shown
Shows(item) ==
  /\ ~ParseThrows(item)
  /\ ~TimestampMissing(JsonParse(item))
  /\ ~TooOld(JsonParse(item))

\* await AsyncStorage.removeItem(…), then JSON.parse, the timestamp checks and
\* the two setters; a rejection or a throw is caught and logged
RemoveItem(c, ok) ==
  /\ calls[c].pc = "removeItem"
  /\ calls' = [calls EXCEPT ![c] = NoCall]
  /\ IF ok
     THEN /\ storage' = NoItem
          /\ IF Shows(calls[c].stored)
             THEN /\ expirationDetails' = JsonParse(calls[c].stored)
                  /\ showExpirationModal' = TRUE
                  /\ timesShown' = [timesShown EXCEPT
                                      ![JsonParse(calls[c].stored).reservationId] = @ + 1]
             ELSE UNCHANGED <<showExpirationModal, expirationDetails, timesShown>>
     ELSE UNCHANGED <<storage, showExpirationModal, expirationDetails, timesShown>>
  /\ UNCHANGED <<serverVars, clientNow, recordsWritten>>

ModalNext ==
  \/ ClientTick
  \/ \E item \in PendingTexts(recordsWritten + 1) : StorePending(item)
  \/ handleExpirationModalClose
  \/ showExpirationModalWithDetails([reservationId |-> 0, timestamp |-> clientNow])
  \/ \E c \in CallSlots : checkPendingReservationExpiration(c)
  \/ \E c \in CallSlots, ok \in BOOLEAN : GetItem(c, ok)
  \/ \E c \in CallSlots, ok \in BOOLEAN : RemoveItem(c, ok)

\* the client starts with nothing stored and the modal hidden; the server is
\* another process, whose start (one of Init's) makes no difference here
ModalInit ==
  /\ Init
  /\ env_GRACE_PERIOD_MINUTES = "unset"
  /\ \A p \in SpotIds : parking_spot[p].parking_section_id = NULL

ModalSpec == ModalInit /\ [][ModalNext]_vars

\* C31: whatever calls of checkPendingReservationExpiration,
\* showExpirationModalWithDetails and handleExpirationModalClose have run,
\* the modal is shown only with details present, and the step that hides
\* it, which only handleExpirationModalClose takes, leaves the details null.
C31_ModalShownOnlyWithDetails ==
  /\ [](showExpirationModal => expirationDetails # NullDetails)
  /\ [][ (showExpirationModal /\ ~showExpirationModal') =>
            expirationDetails' = NullDetails ]_vars
  /\ [][ (expirationDetails # NullDetails /\ expirationDetails' = NullDetails) =>
            ~showExpirationModal' ]_vars

\* the modal is shown with the details of the second record that was stored,
\* and the record is out of the storage
C31_Witness ==
  /\ showExpirationModal
  /\ expirationDetails # NullDetails
  /\ expirationDetails.reservationId = 2
  /\ storage = NoItem

\* the step in which call c of checkPendingReservationExpiration decides on
\* the record it read
DecidingStep(c) == calls[c].pc = "removeItem" /\ calls'[c].pc = "idle"

\* the modal's state changes
ModalChanges ==
  showExpirationModal' # showExpirationModal \/ expirationDetails' # expirationDetails

\* C32 (as claimed): a stored record is consumed at most once: no record is
\* shown by checkPendingReservationExpiration more than once.  A call changes
\* the modal only in its deciding step, which leaves the storage empty, and
\* only to show the record it read when its timestamp is there and not older
\* than 5 minutes; a stale, timestamp-less or unparsable record shows nothing.
C32_RecordConsumedOnce ==
  /\ [](\A k \in 1..MaxRecords : timesShown[k] <= 1)
  /\ [][ \A c \in CallSlots :
           /\ (calls'[c] # calls[c] /\ ~DecidingStep(c)) => ~ModalChanges
           /\ DecidingStep(c) =>
                 /\ ~Shows(calls[c].stored) => ~ModalChanges
                 /\ ModalChanges =>
                       /\ storage' = NoItem
                       /\ showExpirationModal'
                       /\ expirationDetails' = JsonParse(calls[c].stored)
       ]_vars

====
